---- MODULE Spec2Model ----
(***************************************************************************)
(* Model of src/solanaOrderBook.js: class SolanaOrderBook, a client over   *)
(* a Serum market.  Every async method is a process that advances from one *)
(* await to the next; the RPC endpoint, the SDK and the chain are the      *)
(* environment: an awaited request completes with what the chain holds at  *)
(* that moment, or rejects.                                                *)
(*                                                                         *)
(* Numbers: prices and sizes are integers (lots); a quotient or a product  *)
(* with 1.05 is an exact rational <<numerator, denominator>>.              *)
(***************************************************************************)
EXTENDS Integers, Sequences, FiniteSets, TLC

VARIABLES
  call,         \* call[p]: the method call process p is running, its locals
                \* (call[p].log: history of the call's SDK/RPC events)
  ncalls,       \* ncalls[p]: calls p has started
  marketCache,  \* this.marketCache: address -> Market object (0: no entry)
  objCount,     \* Market objects Market.load has created so far
  loads,        \* history: loads[a] = successful Market.load completions for a
  book,         \* the market's order book on chain
  accounts,     \* the owner's OpenOrders accounts on chain (ids 1..accounts)
  txCount,      \* transactions sendTransaction has accepted (txids 1..txCount)
  pendingCreate,\* txids of create-account transactions the chain has yet to process
  fills,        \* the market's fills on chain, most recent first
  now           \* the clock (Date.now()), in milliseconds

vars == <<call, ncalls, marketCache, objCount, loads, book, accounts,
          txCount, pendingCreate, fills, now>>

(***************************************************************************)
(* Bounds                                                                  *)
(***************************************************************************)
MaxCalls == 2
MaxSize == 3
MaxTrades == 2
MaxAccounts == 2
MaxTicks == 2

Procs == {1, 2}
Addrs == {"mktA", "mktB"}
Sides == {"buy", "sell"}

(***************************************************************************)
(* Program constants                                                       *)
(***************************************************************************)
StartMs == 2 * 24 * 60 * 60 * 1000
HalfDayMs == 12 * 60 * 60 * 1000

DefaultDepth == 20
StatsLimit == 100
DayMs == 24 * 60 * 60 * 1000
SlippageFactor == <<105, 100>>

(***************************************************************************)
(* Helpers                                                                 *)
(***************************************************************************)
Min(a, b) == IF a <= b THEN a ELSE b

Take(s, n) == SubSeq(s, 1, Min(n, Len(s)))

UpTo(n) == [i \in 1..n |-> i]

RatEq(a, b) == a[1] * b[2] = b[1] * a[2]

RatMul(a, b) == <<a[1] * b[1], a[2] * b[2]>>

Ev(e, v) == [e |-> e, v |-> v]

(***************************************************************************)
(* The chain's order book: bids best (highest) first, asks best (lowest)   *)
(* first, never crossed.                                                   *)
(***************************************************************************)
Lvl(p, s) == [price |-> p, size |-> s]

BidSides == {<<>>, <<Lvl(2, 1)>>, <<Lvl(4, 2), Lvl(2, 1)>>}

AskSides == {<<>>, <<Lvl(3, 1), Lvl(5, 2)>>, <<Lvl(5, 2)>>}

Uncrossed(b) ==
  b.bids = <<>> \/ b.asks = <<>> \/ b.bids[1].price < b.asks[1].price

Books == {b \in [bids : BidSides, asks : AskSides] : Uncrossed(b)}

(***************************************************************************)
(* Error messages                                                          *)
(***************************************************************************)
MsgRpc == "rpc request failed"
MsgLoadMarket == "Failed to load market"
MsgFetchBook == "Failed to fetch order book"
MsgTrades == "Failed to fetch recent trades"
MsgStats == "Failed to fetch market stats"
MsgLiquidity == "Insufficient liquidity to execute market order of this size"
MsgNoAccount == "No open orders account found"
MsgTypeError == "Cannot read properties of undefined (reading 'address')"

(***************************************************************************)
(* A call and its result                                                   *)
(***************************************************************************)
NoResult == [success |-> FALSE, txid |-> 0, error |-> ""]

IdleCall ==
  [op |-> "idle", frame |-> "", pc |-> "idle", outcome |-> "pending",
   addr |-> "", market |-> 0, side |-> "", size |-> 0, otype |-> "",
   otypeArg |-> "", price |-> <<0, 1>>, ooGiven |-> FALSE, depth |-> 0,
   gotBids |-> FALSE, gotAsks |-> FALSE, bids |-> <<>>, asks |-> <<>>,
   seen |-> {},    \* history, kept for a getOrderBook call: the books the chain
                   \* held while the two loads were in flight
   spread |-> 0, spreadPct |-> <<0, 1>>,
   found |-> <<>>, oo |-> 0, est |-> <<0, 1>>,
   createTx |-> 0, trades |-> <<>>, volume24h |-> 0, lastPrice |-> 0,
   result |-> NoResult, thrown |-> "", log |-> <<>>]

\* the promise of the top-level call resolves to value r
Resolve(c, r) == [c EXCEPT !.pc = "done", !.outcome = "resolved", !.result = r]

\* the promise of the top-level call rejects with an Error of message msg
Reject(c, msg) == [c EXCEPT !.pc = "done", !.outcome = "rejected", !.thrown = msg]

Failure(msg) == [success |-> FALSE, txid |-> 0, error |-> msg]

Success(txid) == [success |-> TRUE, txid |-> txid, error |-> ""]

Logged(c, e, v) == [c EXCEPT !.log = Append(@, Ev(e, v))]

(***************************************************************************)
(* The catch blocks.  c is the call, msg the message of the Error caught.  *)
(* c.frame names the method whose body is running, c.op the method the     *)
(* caller invoked.                                                         *)
(***************************************************************************)
CatchPlaceLimitOrderRethrows(c, msg) == Reject(c, msg)

CatchPlaceLimitOrder(c, msg) == Resolve(c, Failure(msg))

CatchPlaceMarketOrder(c, msg) == Resolve(c, Failure(msg))

CatchCancelOrder(c, msg) == Resolve(c, Failure(msg))

CatchSettleFunds(c, msg) == Resolve(c, Failure(msg))

CatchGetMarketStats(c, msg) == Reject(c, MsgStats)

CatchGetRecentTrades(c, msg) == CatchGetMarketStats(c, MsgTrades)

CatchGetOrderBook(c, msg) ==
  CASE c.op = "getOrderBook" -> Reject(c, MsgFetchBook)
    [] c.op = "placeMarketOrder" -> CatchPlaceMarketOrder(c, MsgFetchBook)
    [] OTHER -> CatchGetMarketStats(c, MsgFetchBook)

\* an Error of message msg is thrown inside the try block of c.frame
Throw(c, msg) ==
  CASE c.frame = "getMarket" -> Reject(c, msg)
    [] c.frame = "getOrderBook" -> CatchGetOrderBook(c, msg)
    [] c.frame = "placeLimitOrder" -> CatchPlaceLimitOrder(c, msg)
    [] c.frame = "placeMarketOrder" -> CatchPlaceMarketOrder(c, msg)
    [] c.frame = "cancelOrder" -> CatchCancelOrder(c, msg)
    [] c.frame = "settleFunds" -> CatchSettleFunds(c, msg)
    [] c.frame = "getRecentTrades" -> CatchGetRecentTrades(c, msg)
    [] OTHER -> CatchGetMarketStats(c, msg)

\* getMarket's own catch: log and rethrow to the method that called it
CatchGetMarket(c, msg) == Throw(c, MsgLoadMarket)

(***************************************************************************)
(* estimateMarketOrderPrice                                                *)
(***************************************************************************)
RECURSIVE EstimateLoop(_, _, _)
EstimateLoop(orders, remainingSize, totalCost) ==
  IF orders = <<>> THEN <<remainingSize, totalCost>>
  ELSE LET order == Head(orders)
           sizeToTake == Min(remainingSize, order.size)
           cost == totalCost + sizeToTake * order.price
           rest == remainingSize - sizeToTake
       IN IF rest <= 0 THEN <<rest, cost>>
          ELSE EstimateLoop(Tail(orders), rest, cost)

estimateWithoutLiquidityCheck(orders, size) ==
  [ok |-> TRUE, price |-> <<EstimateLoop(orders, size, 0)[2], size>>]

estimateMarketOrderPrice(orders, size) ==
  LET r == EstimateLoop(orders, size, 0)
  IN IF r[1] > 0 THEN [ok |-> FALSE, price |-> <<0, 1>>]
     ELSE [ok |-> TRUE, price |-> <<r[2], size>>]

\* the price placeMarketOrder passes to placeLimitOrder
MarketOrderLimitPrice(estimatedPrice, side) ==
  RatMul(estimatedPrice, SlippageFactor)

(***************************************************************************)
(* Continuations: what a method does, synchronously, once an awaited       *)
(* promise has resolved, up to its next await.                             *)
(***************************************************************************)
CacheHasNever(a) == FALSE

CacheHas(a) == marketCache[a] # 0

\* openOrdersAccounts[0].address
FirstAccount(found) == found[1]

\* lines 175-201: build the place-order transaction and call sendTransaction
InvokeSendPlace(c) == Logged([c EXCEPT !.pc = "sendPlace"], "send:place", 0)

\* the awaited findOpenOrdersAccountsForOwner resolved to accounts 1..n
AfterFind(c, n) ==
  LET c1 == Logged([c EXCEPT !.found = UpTo(n)], "find", n)
      c2 == [c1 EXCEPT !.oo = IF n = 0 THEN 0 ELSE FirstAccount(c1.found)]
  IN CASE c.pc = "find1" ->
            IF n = 0 THEN [c1 EXCEPT !.pc = "makeCreate"]
            ELSE InvokeSendPlace(c2)
       [] c.pc = "find2" ->
            IF n = 0 THEN CatchPlaceLimitOrder(c1, MsgTypeError)
            ELSE InvokeSendPlace(c2)
       [] c.pc = "findCancel" ->
            IF n = 0 THEN CatchCancelOrder(c1, MsgTypeError)
            ELSE Logged([c2 EXCEPT !.pc = "sendCancel"], "send:cancel", 0)
       [] OTHER ->
            IF n = 0 THEN Resolve(c1, Failure(MsgNoAccount))
            ELSE Logged([c1 EXCEPT !.pc = "sendSettle"], "send:settle", 0)

AfterSendNoConfirm(c, txid) ==
  CASE c.pc = "sendCreate" ->
         Logged([c EXCEPT !.pc = "find2", !.createTx = txid], "sent:create", txid)
    [] c.pc = "sendPlace" -> Resolve(Logged(c, "sent:place", txid), Success(txid))
    [] c.pc = "sendCancel" -> Resolve(Logged(c, "sent:cancel", txid), Success(txid))
    [] OTHER -> Resolve(Logged(c, "sent:settle", txid), Success(txid))

\* the awaited sendTransaction resolved to txid
AfterSend(c, txid) ==
  CASE c.pc = "sendCreate" ->
         Logged([c EXCEPT !.pc = "confirm", !.createTx = txid], "sent:create", txid)
    [] c.pc = "sendPlace" -> Resolve(Logged(c, "sent:place", txid), Success(txid))
    [] c.pc = "sendCancel" -> Resolve(Logged(c, "sent:cancel", txid), Success(txid))
    [] OTHER -> Resolve(Logged(c, "sent:settle", txid), Success(txid))

\* bids.getL2(depth) / asks.getL2(depth): the best `depth` levels
GetL2(side, depth) == Take(side, depth)

BestPrice(items) == IF Len(items) > 0 THEN items[1].price ELSE 0

\* lines 96-99
Spread(bidItems, askItems) == BestPrice(askItems) - BestPrice(bidItems)

\* line 100
SpreadPercentage(bidItems, askItems) ==
  IF BestPrice(bidItems) > 0
  THEN <<Spread(bidItems, askItems) * 100, BestPrice(bidItems)>>
  ELSE <<0, 1>>

\* getOrderBook returned to c.op (c.bids, c.asks hold the two loads)
AfterGetOrderBook(c) ==
  LET c1 == [c EXCEPT !.spread = Spread(c.bids, c.asks),
                      !.spreadPct = SpreadPercentage(c.bids, c.asks)]
      e == estimateMarketOrderPrice(
             IF c.side = "buy" THEN c1.asks ELSE c1.bids, c.size)
  IN CASE c.op = "getOrderBook" -> Resolve(c1, NoResult)
       [] c.op = "placeMarketOrder" ->
            IF ~e.ok THEN CatchPlaceMarketOrder(Logged(c1, "estimate:throw", 0), MsgLiquidity)
            ELSE Logged([c1 EXCEPT !.est = e.price,
                                   !.price = MarketOrderLimitPrice(e.price, c.side),
                                   !.frame = "placeLimitOrder",
                                   !.pc = "getMarket"],
                        "call:placeLimitOrder", 0)
       [] OTHER -> [c1 EXCEPT !.frame = "getRecentTrades", !.pc = "getMarket"]

\* Promise.all resolves when both loads have
BookLoaded(c) == IF c.gotBids /\ c.gotAsks THEN AfterGetOrderBook(c) ELSE c

\* getMarket returned Market object m to the method c.frame
AfterGetMarket(c, m) ==
  LET c1 == [c EXCEPT !.market = m]
  IN CASE c.frame = "getMarket" -> Resolve(c1, NoResult)
       [] c.frame = "getOrderBook" ->
            [c1 EXCEPT !.pc = "loadBook", !.gotBids = FALSE, !.gotAsks = FALSE,
                       !.seen = IF c.op = "getOrderBook" THEN {book} ELSE {}]
       [] c.frame = "placeLimitOrder" -> [c1 EXCEPT !.pc = "find1"]
       [] c.frame = "placeMarketOrder" ->
            [c1 EXCEPT !.frame = "getOrderBook", !.pc = "getMarket"]
       [] c.frame = "cancelOrder" ->
            IF c.ooGiven
            THEN Logged([c1 EXCEPT !.oo = 1, !.pc = "sendCancel"], "send:cancel", 0)
            ELSE [c1 EXCEPT !.pc = "findCancel"]
       [] c.frame = "settleFunds" ->
            IF c.ooGiven
            THEN Logged([c1 EXCEPT !.found = <<1>>, !.pc = "sendSettle"], "send:settle", 0)
            ELSE [c1 EXCEPT !.pc = "findSettle"]
       [] c.frame = "getRecentTrades" -> [c1 EXCEPT !.pc = "loadFills"]
       [] OTHER -> [c1 EXCEPT !.frame = "getOrderBook", !.pc = "getMarket"]

(***************************************************************************)
(* getRecentTrades and the statistics of getMarketStats                    *)
(***************************************************************************)
Fill(p, s, ts) == [price |-> p, size |-> s, eventTimestamp |-> ts]

\* market.loadFills(connection, limit): the `limit` most recent fills
LoadFills(chainFills, limit) == Take(chainFills, limit)

\* lines 496-503; time: new Date(eventTimestamp * 1000), kept in milliseconds
FormatTrades(loaded) ==
  [i \in 1..Len(loaded) |->
     [price |-> loaded[i].price, size |-> loaded[i].size,
      time |-> loaded[i].eventTimestamp * 1000]]

RECURSIVE SumQuote(_)
SumQuote(trades) ==
  IF trades = <<>> THEN 0
  ELSE Head(trades).price * Head(trades).size + SumQuote(Tail(trades))

InWindow(trade, oneDayAgo) == trade.time >= oneDayAgo

\* lines 525, 535-537
Volume24h(recentTrades, clock) ==
  LET oneDayAgo == clock - DayMs
  IN SumQuote(SelectSeq(recentTrades, LAMBDA t : InWindow(t, oneDayAgo)))

\* getRecentTrades returned to getMarketStats: lines 521-566
AfterGetRecentTrades(c, recentTrades) ==
  Resolve([c EXCEPT !.trades = recentTrades,
                    !.lastPrice = BestPrice(recentTrades),
                    !.volume24h = Volume24h(recentTrades, now)],
          NoResult)

(***************************************************************************)
(* Actions of the client                                                   *)
(***************************************************************************)
Set(p, c) == call' = [call EXCEPT ![p] = c]

Begin(p, c) ==
  /\ call[p].op = "idle"
  /\ ncalls[p] < MaxCalls
  /\ Set(p, c)
  /\ ncalls' = [ncalls EXCEPT ![p] = @ + 1]
  /\ UNCHANGED <<marketCache, objCount, loads, book, accounts, txCount, pendingCreate, fills, now>>

NewCall(op, a) ==
  [IdleCall EXCEPT !.op = op, !.frame = op, !.pc = "getMarket", !.addr = a,
                   !.depth = DefaultDepth]

StartGetMarket(p, a) == Begin(p, NewCall("getMarket", a))

StartGetOrderBook(p, a, depth) ==
  Begin(p, [NewCall("getOrderBook", a) EXCEPT !.depth = depth])

StartPlaceLimitOrder(p, a, side, price, size) ==
  Begin(p, [NewCall("placeLimitOrder", a) EXCEPT
              !.side = side, !.price = <<price, 1>>, !.size = size,
              !.otype = "limit"])

\* line 233: orderType = 'ioc' unless the caller gives one ("": not given)
MarketOrderType(otypeArg) == IF otypeArg = "" THEN "ioc" ELSE otypeArg

StartPlaceMarketOrder(p, a, side, size, otypeArg) ==
  Begin(p, [NewCall("placeMarketOrder", a) EXCEPT
              !.side = side, !.size = size, !.otypeArg = otypeArg,
              !.otype = MarketOrderType(otypeArg)])

StartCancelOrder(p, a, given) ==
  Begin(p, [NewCall("cancelOrder", a) EXCEPT !.ooGiven = given])

StartSettleFunds(p, a, given) ==
  Begin(p, [NewCall("settleFunds", a) EXCEPT !.ooGiven = given])

StartGetMarketStats(p, a) == Begin(p, NewCall("getMarketStats", a))

\* lines 40-50: the cache lookup and, on a miss, the call of Market.load
GetMarketCall(p) ==
  LET c == call[p]
  IN /\ c.pc = "getMarket"
     /\ Set(p, IF CacheHas(c.addr)
               THEN AfterGetMarket(Logged(c, "cache:hit", marketCache[c.addr]),
                                   marketCache[c.addr])
               ELSE Logged([c EXCEPT !.pc = "load"], "Market.load", 0))
     /\ UNCHANGED <<ncalls, marketCache, objCount, loads, book, accounts,
                    txCount, pendingCreate, fills, now>>

\* lines 45-53: Market.load resolved to a new Market object
MarketLoadOk(p) ==
  LET c == call[p]
      m == objCount + 1
  IN /\ c.pc = "load"
     /\ objCount' = m
     /\ marketCache' = [marketCache EXCEPT ![c.addr] = m]
     /\ loads' = [loads EXCEPT ![c.addr] = @ + 1]
     /\ Set(p, AfterGetMarket(Logged(c, "load:ok", m), m))
     /\ UNCHANGED <<ncalls, book, accounts, txCount, pendingCreate, fills, now>>

\* lines 54-57: Market.load rejected
MarketLoadFail(p) ==
  LET c == call[p]
  IN /\ c.pc = "load"
     /\ Set(p, CatchGetMarket(Logged(c, "load:fail", 0), MsgRpc))
     /\ UNCHANGED <<ncalls, marketCache, objCount, loads, book, accounts,
                    txCount, pendingCreate, fills, now>>

\* line 70 resolved: the bids as the chain holds them now
LoadBidsDone(p) ==
  LET c == call[p]
  IN /\ c.pc = "loadBook" /\ ~c.gotBids
     /\ Set(p, BookLoaded([c EXCEPT !.bids = GetL2(book.bids, c.depth),
                                    !.gotBids = TRUE]))
     /\ UNCHANGED <<ncalls, marketCache, objCount, loads, book, accounts,
                    txCount, pendingCreate, fills, now>>

\* line 71 resolved: the asks as the chain holds them now
LoadAsksDone(p) ==
  LET c == call[p]
  IN /\ c.pc = "loadBook" /\ ~c.gotAsks
     /\ Set(p, BookLoaded([c EXCEPT !.asks = GetL2(book.asks, c.depth),
                                    !.gotAsks = TRUE]))
     /\ UNCHANGED <<ncalls, marketCache, objCount, loads, book, accounts,
                    txCount, pendingCreate, fills, now>>

FindPcs == {"find1", "find2", "findCancel", "findSettle"}

SendPcs == {"sendCreate", "sendPlace", "sendCancel", "sendSettle"}

AwaitPcs == FindPcs \cup SendPcs \cup {"loadBook", "makeCreate", "confirm", "loadFills"}

\* findOpenOrdersAccountsForOwner resolved; the RPC node may lag the chain
FindDone(p, n) ==
  LET c == call[p]
  IN /\ c.pc \in FindPcs
     /\ n \in 0..accounts
     /\ Set(p, AfterFind(c, n))
     /\ UNCHANGED <<ncalls, marketCache, objCount, loads, book, accounts,
                    txCount, pendingCreate, fills, now>>

\* lines 148-160: the create-account instruction is built, sendTransaction called
MakeCreateDone(p) ==
  LET c == call[p]
  IN /\ c.pc = "makeCreate"
     /\ Set(p, Logged([c EXCEPT !.pc = "sendCreate"], "send:create", 0))
     /\ UNCHANGED <<ncalls, marketCache, objCount, loads, book, accounts,
                    txCount, pendingCreate, fills, now>>

\* sendTransaction resolved to a fresh txid: the network has the transaction
SendDone(p) ==
  LET c == call[p]
      txid == txCount + 1
  IN /\ c.pc \in SendPcs
     /\ txCount' = txid
     /\ pendingCreate' = IF c.pc = "sendCreate" THEN pendingCreate \cup {txid}
                         ELSE pendingCreate
     /\ Set(p, AfterSend(c, txid))
     /\ UNCHANGED <<ncalls, marketCache, objCount, loads, book, accounts,
                    fills, now>>

\* line 163: confirmTransaction resolved, the create-account transaction landed
ConfirmDone(p) ==
  LET c == call[p]
  IN /\ c.pc = "confirm"
     /\ c.createTx \notin pendingCreate
     /\ Set(p, Logged([c EXCEPT !.pc = "find2"], "confirmed", c.createTx))
     /\ UNCHANGED <<ncalls, marketCache, objCount, loads, book, accounts,
                    txCount, pendingCreate, fills, now>>

\* any awaited SDK/RPC promise other than Market.load rejects
AwaitRejects(p) ==
  LET c == call[p]
  IN /\ c.pc \in AwaitPcs
     /\ Set(p, Throw(Logged(c, "reject", 0), MsgRpc))
     /\ UNCHANGED <<ncalls, marketCache, objCount, loads, book, accounts,
                    txCount, pendingCreate, fills, now>>

\* line 493 resolved
LoadFillsDone(p) ==
  LET c == call[p]
  IN /\ c.pc = "loadFills"
     /\ Set(p, AfterGetRecentTrades(c, FormatTrades(LoadFills(fills, StatsLimit))))
     /\ UNCHANGED <<ncalls, marketCache, objCount, loads, book, accounts,
                    txCount, pendingCreate, fills, now>>

\* the caller takes the settled promise; the process may call again
Return(p) ==
  /\ call[p].outcome # "pending"
  /\ Set(p, IdleCall)
  /\ UNCHANGED <<ncalls, marketCache, objCount, loads, book, accounts,
                 txCount, pendingCreate, fills, now>>

(***************************************************************************)
(* Actions of the chain                                                    *)
(***************************************************************************)
\* other traders change the book.  Only loadBids and loadAsks read the book,
\* so a change is a step of the model only while such a load is in flight:
\* a change at any other moment is the same as one just after the next
\* getOrderBook issued its loads.
BookUpdate(b) ==
  /\ b \in Books \ {book}
  /\ \E p \in Procs : call[p].pc = "loadBook"
  /\ book' = b
  /\ call' = [p \in Procs |->
                IF call[p].pc = "loadBook" /\ call[p].op = "getOrderBook"
                THEN [call[p] EXCEPT !.seen = @ \cup {b}]
                ELSE call[p]]
  /\ UNCHANGED <<ncalls, marketCache, objCount, loads, accounts, txCount, pendingCreate, fills, now>>

\* a submitted create-account transaction is processed (what the other
\* kinds do to the book is part of BookUpdate)
ChainLand(t) ==
  /\ t \in pendingCreate
  /\ pendingCreate' = pendingCreate \ {t}
  /\ accounts' = accounts + 1
  /\ UNCHANGED <<call, ncalls, marketCache, objCount, loads, book, txCount, fills, now>>

\* a trade executes on the market
Trade(pr, sz) ==
  /\ Len(SelectSeq(fills, LAMBDA f : f.eventTimestamp * 1000 >= StartMs)) < MaxTrades
  /\ fills' = <<Fill(pr, sz, now \div 1000)>> \o fills
  /\ UNCHANGED <<call, ncalls, marketCache, objCount, loads, book, accounts, txCount, pendingCreate, now>>

\* time passes
Tick ==
  /\ now < StartMs + MaxTicks * HalfDayMs
  /\ now' = now + HalfDayMs
  /\ UNCHANGED <<call, ncalls, marketCache, objCount, loads, book, accounts, txCount, pendingCreate, fills>>

(***************************************************************************)
(* Specifications                                                          *)
(***************************************************************************)
InitClient ==
  /\ call = [p \in Procs |-> IdleCall]
  /\ ncalls = [p \in Procs |-> 0]
  /\ marketCache = [a \in Addrs |-> 0]
  /\ objCount = 0
  /\ loads = [a \in Addrs |-> 0]
  /\ txCount = 0
  /\ pendingCreate = {}
  /\ now = StartMs

\* concurrent getMarket calls on one instance
InitCache ==
  /\ InitClient
  /\ book \in Books
  /\ accounts = 0
  /\ fills = <<>>

NextCache ==
  \E p \in Procs :
    \/ \E a \in Addrs : StartGetMarket(p, a)
    \/ GetMarketCall(p)
    \/ MarketLoadOk(p)
    \/ MarketLoadFail(p)
    \/ Return(p)

SpecCache == InitCache /\ [][NextCache]_vars

\* getOrderBook calls against a changing book
NextBook ==
  \/ \E p \in {1} :
       \/ \E d \in {1, DefaultDepth} : StartGetOrderBook(p, "mktA", d)
       \/ GetMarketCall(p)
       \/ MarketLoadOk(p)
       \/ MarketLoadFail(p)
       \/ LoadBidsDone(p)
       \/ LoadAsksDone(p)
       \/ AwaitRejects(p)
       \/ Return(p)
  \/ \E b \in Books : BookUpdate(b)

SpecBook == InitCache /\ [][NextBook]_vars

\* the transaction-submitting calls, one at a time, against the chain
InitOrders ==
  /\ InitClient
  /\ book \in Books
  /\ accounts \in 0..MaxAccounts
  /\ fills = <<>>

NextOrders ==
  \/ \E p \in {1} :
       \/ \E side \in Sides, size \in 1..MaxSize :
            \/ StartPlaceLimitOrder(p, "mktA", side, 3, size)
            \/ \E otypeArg \in {"", "postOnly"} :
                 StartPlaceMarketOrder(p, "mktA", side, size, otypeArg)
       \/ \E given \in BOOLEAN :
            \/ StartCancelOrder(p, "mktA", given)
            \/ StartSettleFunds(p, "mktA", given)
       \/ GetMarketCall(p)
       \/ MarketLoadOk(p)
       \/ MarketLoadFail(p)
       \/ LoadBidsDone(p)
       \/ LoadAsksDone(p)
       \/ \E n \in 0..(MaxAccounts + MaxCalls) : FindDone(p, n)
       \/ MakeCreateDone(p)
       \/ SendDone(p)
       \/ ConfirmDone(p)
       \/ AwaitRejects(p)
       \/ Return(p)
  \/ \E b \in Books : BookUpdate(b)
  \/ \E t \in pendingCreate : ChainLand(t)

SpecOrders == InitOrders /\ [][NextOrders]_vars

Spec == SpecOrders

\* getMarketStats over fill histories of every length around the limit
RecentCounts == {0, 1, 2, StatsLimit - 1, StatsLimit, StatsLimit + 1}

\* n fills one hour old (prices 1, 2, 1, ...) on top of `old` fills 30 hours old
History(n, old) ==
  [i \in 1..(n + old) |->
     IF i <= n THEN Fill(1 + (i % 2), 1, (StartMs \div 1000) - 3600)
     ELSE Fill(3, 1, (StartMs \div 1000) - 30 * 3600)]

InitStats ==
  /\ InitClient
  /\ book \in Books
  /\ accounts = 0
  /\ \E n \in RecentCounts, old \in 0..1 : fills = History(n, old)

NextStats ==
  \/ \E p \in {1} :
       \/ StartGetMarketStats(p, "mktA")
       \/ GetMarketCall(p)
       \/ MarketLoadOk(p)
       \/ MarketLoadFail(p)
       \/ LoadBidsDone(p)
       \/ LoadAsksDone(p)
       \/ LoadFillsDone(p)
       \/ AwaitRejects(p)
       \/ Return(p)
  \/ \E pr \in 1..2 : Trade(pr, 1)
  \/ Tick

SpecStats == InitStats /\ [][NextStats]_vars

(***************************************************************************)
(* Properties                                                              *)
(***************************************************************************)
Events(c, e) == {i \in 1..Len(c.log) : c.log[i].e = e}

SendCalls(c) ==
  {i \in 1..Len(c.log) : c.log[i].e \in {"send:create", "send:place", "send:cancel", "send:settle"}}

Sent(c) ==
  {i \in 1..Len(c.log) : c.log[i].e \in {"sent:create", "sent:place", "sent:cancel", "sent:settle"}}

\* an awaited step of the call failed, or the price estimate threw
StepFailed(c) ==
  \E i \in 1..Len(c.log) : c.log[i].e \in {"reject", "load:fail", "estimate:throw"}

TxOps == {"placeLimitOrder", "placeMarketOrder", "cancelOrder", "settleFunds"}

\* C1: placeLimitOrder, placeMarketOrder, cancelOrder and settleFunds never
\* reject: once any awaited step (or the price estimate) has failed the call
\* has resolved to {success: false, error}, and a call resolved to
\* success: true ended with a sendTransaction that returned the txid the
\* result carries.
C1_FailureIsAValue ==
  \A p \in Procs :
    LET c == call[p]
    IN c.op \in TxOps =>
         /\ c.outcome # "rejected"
         /\ (StepFailed(c) =>
              c.outcome = "resolved" /\ ~c.result.success /\ c.result.error # "")
         /\ (c.outcome = "resolved" /\ c.result.success) =>
              /\ c.log # <<>>
              /\ c.log[Len(c.log)].e \in {"sent:place", "sent:cancel", "sent:settle"}
              /\ c.log[Len(c.log)].v = c.result.txid
              /\ c.result.txid \in 1..txCount

\* a market order whose create-account transaction went out and whose
\* confirmation then failed has resolved to a failure value
C1_Witness ==
  \E p \in Procs :
    /\ call[p].op = "placeMarketOrder"
    /\ Events(call[p], "sent:create") # {}
    /\ StepFailed(call[p])
    /\ call[p].outcome = "resolved"

BookResult(c) == c.op = "getOrderBook" /\ c.outcome = "resolved"

\* C2: the spread getOrderBook returns is bestAsk - bestBid when both sides
\* are non-empty and 0 when either side is empty.
C2_SpreadZeroWhenOneSided ==
  \A p \in Procs :
    LET c == call[p]
    IN BookResult(c) =>
         c.spread = IF c.bids # <<>> /\ c.asks # <<>>
                    THEN c.asks[1].price - c.bids[1].price
                    ELSE 0

\* C3: the bids and asks getOrderBook returns are both taken from one book
\* the chain held during the call; so with a chain book that is never
\* crossed the result never has bestBid >= bestAsk.
C3_ConsistentSnapshot ==
  \A p \in Procs :
    LET c == call[p]
    IN BookResult(c) =>
         /\ \E b \in c.seen :
              /\ c.bids = GetL2(b.bids, c.depth)
              /\ c.asks = GetL2(b.asks, c.depth)
         /\ (c.bids # <<>> /\ c.asks # <<>>) => c.bids[1].price < c.asks[1].price

\* C4: a placeLimitOrder that resolved to {success: false} has had no
\* sendTransaction of its own succeed.
C4_FailureSentNothing ==
  \A p \in Procs :
    LET c == call[p]
    IN (c.op = "placeLimitOrder" /\ c.outcome = "resolved" /\ ~c.result.success)
         => Sent(c) = {}

LastEvent(c) == IF c.log = <<>> THEN "" ELSE c.log[Len(c.log)].e

\* C5: a marketCache entry is never removed; an address whose load has
\* succeeded is a key of marketCache; a successful load creates the entry
\* it returns; a getMarket called after a successful load of its address
\* returns the cached object without calling Market.load; and a getMarket
\* whose load fails leaves the cache as it was and rejects.
C5_CacheStep ==
  /\ \A a \in Addrs : marketCache[a] # 0 => marketCache'[a] # 0
  /\ \A a \in Addrs : loads'[a] > 0 => marketCache'[a] # 0
  /\ \A p \in Procs :
       LET c == call[p]
           d == call'[p]
       IN /\ (c.pc = "load" /\ d.pc # "load" /\ LastEvent(d) = "load:ok") =>
               d.market # 0 /\ marketCache'[c.addr] = d.market
          /\ (c.pc = "getMarket" /\ d.pc # "getMarket" /\ loads[c.addr] > 0) =>
               /\ d.pc # "load"
               /\ d.market = marketCache[c.addr]
               /\ marketCache' = marketCache /\ loads' = loads
          /\ (c.pc = "load" /\ d.pc # "load" /\ LastEvent(d) = "load:fail") =>
               marketCache' = marketCache /\ d.outcome = "rejected"

C5_CacheNeverEvicts == [][C5_CacheStep]_vars

\* one caller was served from the cache after a load, another's load failed
C5_Witness ==
  \E p, q \in Procs :
    /\ Events(call[p], "cache:hit") # {}
    /\ call[p].outcome = "resolved"
    /\ loads[call[p].addr] > 0
    /\ Events(call[q], "load:fail") # {}
    /\ call[q].outcome = "rejected"

\* C6: whatever the interleaving of getMarket calls for one address,
\* Market.load succeeds at most once for it, and all callers get one object.
C6_LoadedOnce ==
  /\ \A a \in Addrs : loads[a] <= 1
  /\ \A p, q \in Procs :
       (/\ call[p].op = "getMarket" /\ call[p].outcome = "resolved"
        /\ call[q].op = "getMarket" /\ call[q].outcome = "resolved"
        /\ call[p].addr = call[q].addr)
         => call[p].market = call[q].market

\* placeMarketOrder has called placeLimitOrder
PlacedByMarketOrder(c) ==
  c.op = "placeMarketOrder" /\ Events(c, "call:placeLimitOrder") # {}

OpposingSide(c) == IF c.side = "buy" THEN c.asks ELSE c.bids

\* C7: the price placeMarketOrder passes to placeLimitOrder is the estimate
\* of estimateMarketOrderPrice on the opposing side of the fetched book,
\* times 1.05 for a buy and times 0.95 for a sell.
C7_SlippagePerSide ==
  \A p \in Procs :
    LET c == call[p]
    IN PlacedByMarketOrder(c) =>
         /\ c.est = estimateMarketOrderPrice(OpposingSide(c), c.size).price
         /\ RatEq(c.price,
                  RatMul(c.est, IF c.side = "buy" THEN <<105, 100>> ELSE <<95, 100>>))

\* C8: the volume24h getMarketStats returns is the sum of price x size over
\* all the market's fills of the 24 hours before the call, however many.
C8_VolumeStep ==
  \A p \in Procs :
    (call[p].pc = "loadFills" /\ call'[p].outcome = "resolved") =>
      call'[p].volume24h = Volume24h(FormatTrades(fills), now)

C8_VolumeOfAllFills == [][C8_VolumeStep]_vars

\* the call runs placeLimitOrder's body
InPlaceLimitOrder(c) ==
  \/ c.op = "placeLimitOrder"
  \/ PlacedByMarketOrder(c)

\* C9: in placeLimitOrder, sendTransaction is called for the place-order
\* only after a lookup found an account; when the first lookup found none,
\* the create-account transaction was sent and then confirmed before the
\* second lookup and before the place-order; when the first lookup found
\* an account, the only sendTransaction call is the place-order's, and the
\* account used is the first one found.
C9_StepOrder ==
  \A p \in Procs :
    LET c == call[p]
        finds == Events(c, "find")
        first == CHOOSE i \in finds : \A j \in finds : i <= j
    IN InPlaceLimitOrder(c) =>
         IF finds = {} THEN SendCalls(c) = {}
         ELSE /\ \A k \in Events(c, "send:place") :
                   /\ \E j \in finds : j < k /\ c.log[j].v > 0
                   /\ c.oo = c.found[1]
              /\ (c.log[first].v = 0) =>
                   \A k \in (finds \ {first}) \cup Events(c, "send:place") :
                     \E i \in Events(c, "sent:create"), j \in Events(c, "confirmed") :
                       /\ first < i /\ i < j /\ j < k
                       /\ c.log[j].v = c.log[i].v
              /\ (c.log[first].v > 0) =>
                   /\ Cardinality(SendCalls(c)) = 1
                   /\ SendCalls(c) = Events(c, "send:place")
                   /\ c.oo = c.found[1]

\* an order went out after the account was created and confirmed, and
\* another with the second of two accounts on chain still used the first
C9_Witness ==
  \E p \in Procs :
    LET c == call[p]
    IN /\ InPlaceLimitOrder(c)
       /\ Events(c, "confirmed") # {}
       /\ c.outcome = "resolved" /\ c.result.success
       /\ accounts >= 2

RECURSIVE SumSizes(_)
SumSizes(levels) ==
  IF levels = <<>> THEN 0 ELSE Head(levels).size + SumSizes(Tail(levels))

\* placeMarketOrder has its order book
BookFetched(c) ==
  c.op = "placeMarketOrder" /\ c.gotBids /\ c.gotAsks /\ c.pc # "loadBook"

\* C10: with less size on the opposing side of the fetched book than the
\* order asks for, placeMarketOrder calls neither placeLimitOrder nor
\* sendTransaction and resolves to {success: false} with the
\* insufficient-liquidity message; with enough, it calls placeLimitOrder
\* once, with order type 'ioc' unless the caller gave another.
C10_LiquidityGate ==
  \A p \in Procs :
    LET c == call[p]
    IN BookFetched(c) =>
         IF SumSizes(OpposingSide(c)) < c.size
         THEN /\ Events(c, "call:placeLimitOrder") = {}
              /\ SendCalls(c) = {}
              /\ c.outcome = "resolved"
              /\ ~c.result.success
              /\ c.result.error = MsgLiquidity
         ELSE /\ Cardinality(Events(c, "call:placeLimitOrder")) = 1
              /\ c.frame = "placeLimitOrder"
              /\ c.otype = IF c.otypeArg = "" THEN "ioc" ELSE c.otypeArg

\* a size-3 buy refused on asks that hold 2
C10_Witness ==
  \E p \in Procs :
    LET c == call[p]
    IN /\ BookFetched(c)
       /\ c.side = "buy" /\ c.size = 3 /\ SumSizes(c.asks) = 2
       /\ c.result.error = MsgLiquidity

\* the price of the last level estimateMarketOrderPrice's loop takes from,
\* for levels that hold at least `size`
RECURSIVE DeepestConsumedPrice(_, _)
DeepestConsumedPrice(orders, size) ==
  IF Len(orders) = 1 \/ size <= Head(orders).size
  THEN Head(orders).price
  ELSE DeepestConsumedPrice(Tail(orders), size - Head(orders).size)

\* C11: the price placeMarketOrder passes to placeLimitOrder is at least the
\* price of the deepest ask level the estimate consumed for a buy, and at
\* most the price of the deepest bid level consumed for a sell.
C11_LimitCrossesConsumedLevels ==
  \A p \in Procs :
    LET c == call[p]
        deepest == DeepestConsumedPrice(OpposingSide(c), c.size)
    IN PlacedByMarketOrder(c) =>
         IF c.side = "buy"
         THEN c.price[1] >= deepest * c.price[2]
         ELSE c.price[1] <= deepest * c.price[2]

====
